---- MODULE Spec2Model ----
(***************************************************************************)
(* Model of comfy_buildkit.ComfyBuildkit (src/src/comfy_buildkit/          *)
(* __init__.py, the class definition in force: lines 483-952).             *)
(*                                                                         *)
(* Text is modelled structurally.  An atom is a string, a token is a       *)
(* sequence of atoms (the characters of the token, cut at the places the   *)
(* code cuts them: "/" separators, ".git"), a line is a sequence of        *)
(* tokens, a text is a sequence of lines each ended by a newline; the      *)
(* empty line is <<>>.  Two texts are byte-identical iff they are equal.   *)
(***************************************************************************)
EXTENDS Integers, Sequences, FiniteSets, TLC

\* ------------------------------------------------------------------ bounds
\* customization calls per plan
MaxUser == 2
\* declared add-ons per plan
MaxNodes == 2
\* declared download operations per plan
MaxDownloads == 2
\* builder calls per plan when every kind of call is interleaved
MaxCalls == 1
\* builder calls per plan when one call of each kind of declaration is interleaved
MaxPlan == 2
\* builder calls on two plans together
MaxTwoPlans == 1
\* size of the space the 8-hex-digit digest is folded into
DigestSpace == 4093

\* --------------------------------------------------------------- text helpers
T(s) == <<s>>
NoneVal == <<"<None>">>
Truthy(tok) == tok # NoneVal /\ tok # <<>>

\* the value of e handed to F: an argument is evaluated once, before the call
Let1(e, F(_)) == CHOOSE r \in {F(x) : x \in {e}} : TRUE

RECURSIVE FlattenFrom(_, _)
FlattenFrom(ss, i) == IF i > Len(ss) THEN <<>> ELSE ss[i] \o FlattenFrom(ss, i + 1)

Flatten(ss0) == Let1(ss0, LAMBDA ss : FlattenFrom(ss, 1))

\* sep.join(items) for a sequence of lines: "\n".join puts one newline between
\* lines (blank = 0), "\n\n".join leaves one empty line between them (blank = 1)
JoinLines(lines0, blank) ==
    Let1(lines0, LAMBDA lines :
        IF blank = 0 \/ Len(lines) <= 1 THEN lines
        ELSE [i \in 1..(2 * Len(lines) - 1) |->
                 IF i % 2 = 1 THEN lines[(i + 1) \div 2] ELSE <<>>])

\* "\n".join(lines) + "\n" as a text: an empty list still yields one newline
JoinNl(lines0) ==
    Let1(lines0, LAMBDA lines : IF lines = <<>> THEN <<(<<>>)>> ELSE JoinLines(lines, 0))
\* "\n\n".join(lines) + "\n"
JoinNlNl(lines0) ==
    Let1(lines0, LAMBDA lines : IF lines = <<>> THEN <<(<<>>)>> ELSE JoinLines(lines, 1))

\* "\n".join(texts) where every text already ends with a newline: the joining
\* newline shows as one empty line between consecutive texts
RECURSIVE JoinTextsFrom(_, _)
JoinTextsFrom(texts, i) ==
    IF i > Len(texts) THEN <<>>
    ELSE IF i = Len(texts) THEN texts[i]
    ELSE texts[i] \o <<(<<>>)>> \o JoinTextsFrom(texts, i + 1)

JoinTexts(texts0) == Let1(texts0, LAMBDA texts : JoinTextsFrom(texts, 1))

\* --------------------------------------------------------------- path helpers
\* a path is a token whose separators are the atom "/"
Slash == "/"
StartsWithSlash(p) == Len(p) > 0 /\ p[1] = Slash

LastSlash(p) ==
    IF \E i \in 1..Len(p) : p[i] = Slash
    THEN CHOOSE i \in 1..Len(p) : p[i] = Slash /\ \A j \in (i+1)..Len(p) : p[j] # Slash
    ELSE 0

\* os.path.basename
Basename(p) == SubSeq(p, LastSlash(p) + 1, Len(p))

\* os.path.dirname: the head up to the last separator, the root kept as "/"
Dirname(p) ==
    LET i == LastSlash(p) IN
    IF i = 0 THEN <<>>
    ELSE IF \A j \in 1..i : p[j] = Slash THEN SubSeq(p, 1, i)
    ELSE SubSeq(p, 1, i - 1)

\* os.path.join(a, b)
PathJoin(a, b) ==
    IF StartsWithSlash(b) THEN b
    ELSE IF a = <<>> \/ a[Len(a)] = Slash THEN a \o b
    ELSE a \o <<Slash>> \o b

\* str.lstrip('/')
RECURSIVE LStripSlash(_)
LStripSlash(p) == IF StartsWithSlash(p) THEN LStripSlash(Tail(p)) ELSE p

ComfyuiModels == <<"/", "comfyui", "/", "models">>
ComfyModels == <<"/", "comfy", "/", "models">>

\* ------------------------------------------------------- download operations
\* HFFileDownload.__init__
HFFileDownload(repo_id, filename, local_path, revision, token) ==
    [kind |-> "HFFileDownload",
     repo_id |-> repo_id,
     filename |-> filename,
     local_path |-> IF ~StartsWithSlash(local_path)
                    THEN PathJoin(ComfyuiModels, local_path) ELSE local_path,
     revision |-> revision,
     token |-> token]

\* HFSnapshotDownload.__init__ ; ignore_patterns is a list of tokens, None is <<NoneVal>>
HFSnapshotDownload(repo_id, local_dir, revision, ignore_patterns, token) ==
    [kind |-> "HFSnapshotDownload",
     repo_id |-> repo_id,
     local_dir |-> IF ~StartsWithSlash(local_dir)
                   THEN PathJoin(ComfyModels, local_dir) ELSE local_dir,
     revision |-> revision,
     ignore_patterns |-> ignore_patterns,
     token |-> token]

\* URLDownload.__init__
URLDownload(url, local_path) ==
    [kind |-> "URLDownload",
     url |-> url,
     local_path |-> IF ~StartsWithSlash(local_path)
                    THEN PathJoin(ComfyModels, local_path) ELSE local_path]

CivitaiApi(model_id) == <<"https://civitai.com/api/download/models", "/">> \o model_id

\* variant: the probe's answer is used whether or not a name was given
GetFileNameProbed(model_id, model_name, net) ==
    IF net.kind = "disposition" THEN net.name
    ELSE IF net.kind = "location" THEN Basename(net.path)
    ELSE Basename(CivitaiApi(model_id))

\* CivitaiDownload._get_file_name: the explicit name, else the name the HEAD
\* probe resolves.  net is the probe's outcome: net.kind is "error" (transport
\* error or error status), "disposition" (redirect carrying a
\* response-content-disposition filename), "location" (redirect without one)
\* or "nolocation"; the caller handles "error" before using the name.
GetFileName(model_id, model_name, net) ==
    IF Truthy(model_name) THEN model_name
    ELSE IF net.kind = "disposition" THEN net.name
    ELSE IF net.kind = "location" THEN Basename(net.path)
    ELSE Basename(CivitaiApi(model_id))

\* CivitaiDownload.__init__
CivitaiDownload(model_id, local_path, token, model_name, net) ==
    LET local_dir == IF ~StartsWithSlash(local_path)
                     THEN PathJoin(ComfyuiModels, Dirname(local_path))
                     ELSE Dirname(local_path)
        file_name == GetFileName(model_id, model_name, net)
    IN [kind |-> "CivitaiDownload",
        model_id |-> model_id,
        local_dir |-> local_dir,
        token |-> token,
        model_name |-> model_name,
        file_name |-> file_name,
        local_path |-> PathJoin(local_dir, file_name)]

\* variant: a probe that fails is not reported
CivitaiRaisesNever(model_name, net) == FALSE

\* True when constructing the CivitaiDownload raises (requests.head raises or
\* raise_for_status raises); no probe is made when a name is given
CivitaiRaises(model_name, net) == ~Truthy(model_name) /\ net.kind = "error"

\* variant: an optional argument is written whether or not it was given
OptAlways(key, val) == <<T(key), val>>

\* an optional keyword argument of the generated call: omitted when falsy
Opt(key, val) == IF Truthy(val) THEN <<T(key), val>> ELSE <<>>

\* get_dockerfile_commands of the four variants
GetDockerfileCommands(op) ==
    IF op.kind = "HFFileDownload" THEN
        << <<T("RUN"), T("python -c hf_hub_download"),
             T("repo_id="), op.repo_id, T("filename="), op.filename,
             T("local_dir="), Dirname(op.local_path)>>
           \o Opt("revision=", op.revision) \o Opt("token=", op.token) >>
    ELSE IF op.kind = "HFSnapshotDownload" THEN
        << <<T("RUN"), T("python -c snapshot_download"),
             T("repo_id="), op.repo_id, T("local_dir="), op.local_dir>>
           \o Opt("revision=", op.revision)
           \o (IF op.ignore_patterns # <<NoneVal>> /\ op.ignore_patterns # <<>>
               THEN <<T("ignore_patterns=")>> \o op.ignore_patterns ELSE <<>>)
           \o Opt("token=", op.token) >>
    ELSE IF op.kind = "URLDownload" THEN
        << <<T("ADD"), op.url, op.local_path>> >>
    ELSE
        << <<T("RUN"), T("mkdir -p"), op.local_dir>>,
           <<T("RUN"), T("wget -O"), op.local_path,
             CivitaiApi(op.model_id)
               \o (IF Truthy(op.token) THEN <<"?token=">> \o op.token ELSE <<>>),
             T("|| (echo 'Failed to download model"), op.model_id, T("' && exit 1)")>> >>

\* get_output_path of the four variants
GetOutputPath(op) ==
    IF op.kind = "HFSnapshotDownload" THEN op.local_dir ELSE op.local_path

\* variant: a URL download is identified by its url only
OperationDictUrlOnly(op) ==
    IF op.kind = "URLDownload" THEN << <<"url", op.url>> >>
    ELSE << <<"local_path", GetOutputPath(op)>>, <<"token", op.token>> >>

\* operation.__dict__ : the instance attributes in assignment order
OperationDict(op) ==
    IF op.kind = "HFFileDownload" THEN
        << <<"repo_id", op.repo_id>>, <<"filename", op.filename>>,
           <<"local_path", op.local_path>>, <<"revision", op.revision>>,
           <<"token", op.token>> >>
    ELSE IF op.kind = "HFSnapshotDownload" THEN
        << <<"repo_id", op.repo_id>>, <<"local_dir", op.local_dir>>,
           <<"revision", op.revision>>,
           <<"ignore_patterns", Flatten(op.ignore_patterns)>>,
           <<"token", op.token>> >>
    ELSE IF op.kind = "URLDownload" THEN
        << <<"url", op.url>>, <<"local_path", op.local_path>> >>
    ELSE
        << <<"model_id", op.model_id>>, <<"local_dir", op.local_dir>>,
           <<"token", op.token>>, <<"model_name", op.model_name>>,
           <<"file_name", op.file_name>>, <<"local_path", op.local_path>> >>

\* str(operation.__dict__) as a sequence of atoms: "key: value, " per attribute
StrDict(d0) ==
    Let1(d0, LAMBDA d :
        Flatten([k \in 1..Len(d) |-> <<d[k][1], ":">> \o d[k][2] \o <<",">>]))

\* the atoms that can occur in str(operation.__dict__), in a fixed order; the
\* position of an atom is its byte code for the digest
AtomTable ==
    <<":", ",", "/", "<None>",
      "repo_id", "filename", "local_path", "revision", "token", "local_dir",
      "ignore_patterns", "url", "model_id", "model_name", "file_name",
      "comfyui", "comfy", "models", "checkpoints", "data", "loras",
      "m.bin", "n.bin", "repoA", "repoB", "v1", "tok", "*.bin",
      "http://example.com/model.bin", "329420", "named.safetensors",
      "resolved.safetensors", "https://s3.example", "blob.bin">>

AtomCodes ==
    [a \in {AtomTable[i] : i \in 1..Len(AtomTable)} |->
        CHOOSE i \in 1..Len(AtomTable) : AtomTable[i] = a]

AtomCode(a) == AtomCodes[a]

\* hashlib.md5(text).hexdigest()[:8], as a deterministic fold of the text into
\* DigestSpace values (distinct texts may collide, equal texts never differ)
RECURSIVE Md5Fold(_, _, _)
Md5Fold(atoms, lo, hi) ==
    IF lo > hi THEN 7
    ELSE IF lo = hi THEN (7 * 31 + AtomCode(atoms[lo])) % DigestSpace
    ELSE Let1((lo + hi) \div 2, LAMBDA mid :
            (Md5Fold(atoms, lo, mid) * 31 + Md5Fold(atoms, mid + 1, hi)) % DigestSpace)

Md5Hex8(atoms0) == Let1(atoms0, LAMBDA atoms : Md5Fold(atoms, 1, Len(atoms)))

\* stage_name = f"download_{operation_hash}" (computed from the operation alone)
StageName(op) == <<"download_", ToString(Md5Hex8(StrDict(OperationDict(op))))>>

\* ------------------------------------------------------------ ComfyBuildkit
VARIABLES
    base_image,           \* self.base_image
    python_version,       \* self.python_version
    custom_nodes,         \* self.custom_nodes : sequence of <<url, revision>>
    system_stage,         \* self.system_stage : sequence of lines
    user_stage,           \* self.user_stage : sequence of lines
    download_operations,  \* self.download_operations : sequence of operations
    files,                \* the files under self.temp_dir : path -> text
    templateFiles,        \* the files of the installed package's template directory
    ret,                  \* outcome of the most recent call (observer)
    calls,                \* lines emitted by each successful customization call (observer)
    probes,               \* HEAD requests the most recent call made (observer)
    temp_dir,             \* self.temp_dir : the name of the build-context directory
    peer,                 \* the other ComfyBuildkit instance of the process, if any
    dirs,                 \* the temporary directories that exist on disk
    request,              \* the HEAD request of a construction in progress, if any
    installer             \* the add-on installer script running in the image build, if any

vars == <<base_image, python_version, custom_nodes, system_stage, user_stage,
          download_operations, files, templateFiles, ret, calls, probes, temp_dir, peer,
          dirs, request, installer>>

plan == <<base_image, python_version, custom_nodes, user_stage, download_operations>>

Put(f, path, text) ==
    [q \in (DOMAIN f) \cup {path} |-> IF q = path THEN text ELSE f[q]]

NoFiles == [q \in {} |-> <<>>]

Ok(op) == [op |-> op, status |-> "ok", text |-> <<>>]
Raised(op, exc) == [op |-> op, status |-> exc, text |-> <<>>]
Returned(op, text) == [op |-> op, status |-> "ok", text |-> text]

SystemStageName == T("system_stage")
UserStageName == T("user_stage")
FinalStageName == T("final_stage")

\* ComfyBuildkit.__init__ defaults
ComfyInstallData ==
    << <<T("{")>>,
       <<T("comfy_version"), T("master")>>,
       <<T("repo"), T("https://github.com/comfyanonymous/ComfyUI.git")>>,
       <<T("manager_version"), T("8897b9e0f77d85dc02610784e4c357329dd04f4f")>>,
       <<T("manager_repo"), T("https://github.com/ltdrdata/ComfyUI-Manager.git")>>,
       <<T("}")>> >>

\* The installed package's template directory.  src/ shows its Python files
\* (10-install-comfy.py is there, 20-install-nodes.py is not); which data files
\* and which further scripts the packaging ships is an input of the
\* environment, so every combination is a possible start.
ShippedTemplates == {T("10-install-comfy.py"), T("install-comfy-and-nodes.py")}
OptionalTemplates == {T("10-install-comfy.json"), T("20-install-nodes.json"),
                      T("20-install-nodes.py")}

FullTemplates == ShippedTemplates \cup OptionalTemplates
TemplateEnvs == {ShippedTemplates,
                 ShippedTemplates \cup {T("10-install-comfy.json")},
                 FullTemplates}

TemplateText(name) == << <<T("template"), name>> >>

\* the caller's project directory (os.getcwd() at construction)
FileA == <<"a.txt">>
FileSubB == <<"sub", "/", "b.txt">>
FileSubA == <<"sub", "/", "a.txt">>
FileMissing == <<"missing.txt">>
ProjectFiles == {FileA, FileSubB, FileSubA}
ProjectText(path) == << <<T("project"), path>> >>

TempDirs == {T("tmpA"), T("tmpB"), T("tmpC")}

\* variant: a name already in use can be returned
MkdtempShared(taken) == TempDirs

\* tempfile.mkdtemp(): the names it can return, given the directories that
\* exist; it creates a directory that did not exist
Mkdtemp(taken) == TempDirs \ taken

\* no second instance has been constructed
NoPlan ==
    [live |-> FALSE, temp_dir |-> <<>>, base_image |-> <<>>, python_version |-> <<>>,
     custom_nodes |-> <<>>, system_stage |-> <<>>, user_stage |-> <<>>,
     download_operations |-> <<>>, files |-> NoFiles, calls |-> <<>>]

\* a call on this instance, seen from the other one: the instance attributes
\* are its own objects; a directory's content belongs to the directory, so
\* the other instance sees what this one writes exactly when both hold the
\* same directory name.  No call but cleanup() removes a directory, and a
\* call that writes into the build context creates its directory when it is
\* missing (os.makedirs(..., exist_ok=True)).
PeerFrame ==
    /\ temp_dir' = temp_dir
    /\ peer' = IF peer.live /\ peer.temp_dir = temp_dir
               THEN [peer EXCEPT !.files = files'] ELSE peer
    /\ dirs' = IF files' # NoFiles THEN dirs \cup {temp_dir} ELSE dirs

\* os.path.isdir(self.temp_dir)
ContextExists == temp_dir \in dirs

\* no construction of a marketplace operation is in progress
NoRequest == [state |-> "idle", args |-> <<>>, net |-> <<>>]

\* no installer script has been run
NoInstaller ==
    [script |-> "none", status |-> "idle", manifest |-> <<>>, next |-> 0,
     attempted |-> <<>>, log |-> <<>>]

\* a call that makes no network request; the library runs nothing of the
\* image build either
NoProbe == probes' = 0 /\ request' = request /\ installer' = installer

\* _get_file_name returns the explicit name before any request is built
Probes(model_name) == IF Truthy(model_name) THEN 0 ELSE 1

Init ==
    /\ probes = 0
    /\ temp_dir = CHOOSE d \in Mkdtemp({}) : TRUE
    /\ dirs = {temp_dir}
    /\ request = NoRequest
    /\ installer = NoInstaller
    /\ peer = NoPlan
    /\ base_image = T("ubuntu:22.04")
    /\ python_version = T("3.11")
    /\ custom_nodes = <<>>
    /\ system_stage = <<>>
    /\ user_stage = <<>>
    /\ download_operations = <<>>
    /\ files = NoFiles
    /\ templateFiles \in TemplateEnvs
    /\ ret = Ok("__init__")
    /\ calls = <<>>

\* ------------------------------------------------- system-stage internals
\* a generation in progress: the system stage built so far, the build context,
\* and the exception that stopped it ("none" while running)
Gen(stage, fl, err) == [stage |-> stage, files |-> fl, err |-> err]

\* _run
SysRun(g0, command) ==
    Let1(g0, LAMBDA g :
        IF g.err # "none" THEN g
        ELSE [g EXCEPT !.stage = Append(@, <<T("RUN")>> \o command)])

\* variant: the sources are named in the instruction without being copied
RECURSIVE SysCopySourcesUncopied(_, _, _)
SysCopySourcesUncopied(g0, sources, n) ==
    IF n = 0 THEN g0
    ELSE Let1(SysCopySourcesUncopied(g0, sources, n - 1), LAMBDA g :
            IF g.err # "none" THEN g
            ELSE IF sources[n] \in templateFiles
                 THEN g
                 ELSE [g EXCEPT !.err = "FileNotFoundError"])

\* the loop of _copy: each source is taken from the package's template directory
RECURSIVE SysCopySources(_, _, _)
SysCopySources(g0, sources, n) ==
    IF n = 0 THEN g0
    ELSE Let1(SysCopySources(g0, sources, n - 1), LAMBDA g :
            IF g.err # "none" THEN g
            ELSE IF sources[n] \in templateFiles
                 THEN [g EXCEPT !.files = Put(@, sources[n], TemplateText(sources[n]))]
                 ELSE [g EXCEPT !.err = "FileNotFoundError"])

\* _copy(*sources, dest)
SysCopy(g0, sources, dest) ==
    Let1(SysCopySources(g0, sources, Len(sources)), LAMBDA c :
        IF c.err # "none" THEN c
        ELSE [c EXCEPT !.stage = Append(@, <<T("COPY")>> \o sources \o <<dest>>)])

\* _env(**kwargs)
RECURSIVE SysEnvUpTo(_, _, _)
SysEnvUpTo(g0, kwargs, n) ==
    IF n = 0 THEN g0
    ELSE Let1(SysEnvUpTo(g0, kwargs, n - 1), LAMBDA g :
            IF g.err # "none" THEN g
            ELSE [g EXCEPT !.stage =
                     Append(@, <<T("ENV"), <<kwargs[n][1], "=">> \o kwargs[n][2]>>)])

SysEnv(g0, kwargs) == SysEnvUpTo(g0, kwargs, Len(kwargs))

Quote(tok) == <<"\"">> \o tok \o <<"\"">>

RECURSIVE QuoteAll(_)
QuoteAll(items) ==
    IF items = <<>> THEN <<>> ELSE <<Quote(Head(items))>> \o QuoteAll(Tail(items))

\* _cmd(command) for a string command: shlex.split, then the JSON-array form
SysCmd(g0, words) ==
    Let1(g0, LAMBDA g :
        IF g.err # "none" THEN g
        ELSE [g EXCEPT !.stage =
                 Append(@, <<T("CMD"), T("[")>> \o QuoteAll(words) \o <<T("]")>>)])

\* _file_contents(content, remote_path, json_dump)
SysFileContents(g0, content, remote_path) ==
    Let1(g0, LAMBDA g :
        IF g.err # "none" THEN g
        ELSE SysCopy([g EXCEPT !.files = Put(@, LStripSlash(remote_path), content)],
                     <<remote_path>>, remote_path))

\* _install_comfyui
InstallComfyui(g) ==
    SysRun(SysCopy(SysFileContents(g, ComfyInstallData, T("10-install-comfy.json")),
                   <<T("10-install-comfy.py")>>, <<"/", "10-install-comfy.py">>),
           <<T("python3"), <<"/", "10-install-comfy.py">> >>)

\* url.split('/')[-1].replace('.git', '')
RepoName(url) == SelectSeq(Basename(url), LAMBDA a : a # ".git")

\* node_install_data of _install_custom_nodes, as json.dump writes it
RECURSIVE NodeRecords(_)
NodeRecords(nodes) ==
    IF nodes = <<>> THEN <<>>
    ELSE << <<T("url"), nodes[1][1], T("hash"), nodes[1][2],
              T("repo_name"), RepoName(nodes[1][1])>> >> \o NodeRecords(Tail(nodes))

NodeInstallData(nodes) == << <<T("[")>> >> \o NodeRecords(nodes) \o << <<T("]")>> >>

\* _install_custom_nodes
InstallCustomNodes(g) ==
    SysRun(SysCopy(SysFileContents(g, NodeInstallData(custom_nodes), T("20-install-nodes.json")),
                   <<T("20-install-nodes.py")>>, <<"/", "20-install-nodes.py">>),
           <<T("python3"), <<"/", "20-install-nodes.py">> >>)

\* variant: the system stage is extended instead of started afresh
FreshSystemStageAccumulating(old) ==
    old \o << <<T("FROM"), base_image, T("AS"), SystemStageName>> >>

\* self.system_stage = [f"FROM {self.base_image} AS system_stage"]
FreshSystemStage(old) == << <<T("FROM"), base_image, T("AS"), SystemStageName>> >>

AptPrerequisites ==
    <<T("apt-get update && apt-get install -y"), <<"python">> \o python_version,
      T("python3-pip python-is-python3 wget git libgl1-mesa-glx libglib2.0-0 libsm6 libxrender1 libxext6 ffmpeg && apt-get clean && rm -rf /var/lib/apt/lists/*")>>

LaunchWords == <<T("python"), <<"/", "comfyui", "/", "main.py">>, T("--listen"), T("0.0.0.0")>>

\* generate_base_dockerfile, started with system stage sys and build context fl;
\* .text is the returned text when .err = "none"
GenerateBaseDockerfile(sys, fl) ==
    LET g0 == Gen(FreshSystemStage(sys), fl, "none")
        g1 == SysEnv(g0, << <<"DEBIAN_FRONTEND", T("noninteractive")>>,
                            <<"PIP_PREFER_BINARY", T("1")>>,
                            <<"PYTHONUNBUFFERED", T("1")>> >>)
        g2 == SysRun(SysRun(g1, AptPrerequisites), <<T("pip install uv")>>)
        g3 == InstallComfyui(g2)
        g4 == IF custom_nodes # <<>> THEN InstallCustomNodes(g3) ELSE g3
        g5 == SysCmd(g4, LaunchWords)
    IN Let1(g5, LAMBDA g :
           [stage |-> g.stage, files |-> g.files, err |-> g.err,
            text |-> IF g.err = "none" THEN JoinNlNl(g.stage) ELSE <<>>])

\* ------------------------------------------------------ descriptor assembly
FromLine(base, name) == <<T("FROM"), base, T("AS"), name>>

\* variant: the position of the operation is hashed with its attributes
DownloadBlockPositional(ops, i) ==
    <<FromLine(SystemStageName,
               <<"download_",
                 ToString((Md5Hex8(StrDict(OperationDict(ops[i]))) + i) % DigestSpace)>>)>>
    \o GetDockerfileCommands(ops[i])

\* variant: each download stage is built on the download stage before it
DownloadBlockChained(ops, i) ==
    <<FromLine(IF i > 1 THEN StageName(ops[i - 1]) ELSE SystemStageName,
               StageName(ops[i]))>>
    \o GetDockerfileCommands(ops[i])

\* the body of the loop of generate_download_dockerfile for one operation
DownloadBlock(ops, i) ==
    <<FromLine(SystemStageName, StageName(ops[i]))>> \o GetDockerfileCommands(ops[i])

RECURSIVE DownloadStages(_, _)
DownloadStages(ops, i) ==
    IF i > Len(ops) THEN <<>>
    ELSE DownloadBlock(ops, i) \o DownloadStages(ops, i + 1)

\* generate_download_dockerfile
GenerateDownloadDockerfile ==
    JoinNl(IF download_operations # <<>>
           THEN << <<T("RUN"), T("pip install huggingface_hub")>> >>
                \o DownloadStages(download_operations, 1)
           ELSE <<>>)

\* generate_user_dockerfile
GenerateUserDockerfile == JoinNl(user_stage)

\* variant: the final stage numbers its sources instead of hashing them
FinalCopyLineByIndex(ops, i) ==
    <<T("COPY"), <<"--from=", "download_", ToString(i)>>,
      GetOutputPath(ops[i]), GetOutputPath(ops[i])>>

\* one line of the loop that closes generate_dockerfile
FinalCopyLine(ops, i) ==
    <<T("COPY"), <<"--from=">> \o StageName(ops[i]),
      GetOutputPath(ops[i]), GetOutputPath(ops[i])>>

\* variant: an operation equal to an earlier one gets no COPY line of its own
RECURSIVE FinalCopiesDeduplicated(_, _)
FinalCopiesDeduplicated(ops, i) ==
    IF i > Len(ops) THEN <<>>
    ELSE (IF \E j \in 1..(i - 1) : ops[j] = ops[i] THEN <<>>
          ELSE <<FinalCopyLine(ops, i)>>)
         \o FinalCopiesDeduplicated(ops, i + 1)

RECURSIVE FinalCopies(_, _)
FinalCopies(ops, i) ==
    IF i > Len(ops) THEN <<>>
    ELSE <<FinalCopyLine(ops, i)>> \o FinalCopies(ops, i + 1)

\* variant: the user stage is emitted before the download stages
StageTextsUserFirst(baseText) ==
    << baseText,
       <<FromLine(SystemStageName, UserStageName)>> \o GenerateUserDockerfile,
       GenerateDownloadDockerfile,
       <<FromLine(UserStageName, FinalStageName)>>
          \o FinalCopies(download_operations, 1) >>

\* the list `stages` of generate_dockerfile, given the system-stage text
StageTexts(baseText) ==
    << baseText,
       GenerateDownloadDockerfile,
       <<FromLine(SystemStageName, UserStageName)>> \o GenerateUserDockerfile,
       <<FromLine(UserStageName, FinalStageName)>>
          \o FinalCopies(download_operations, 1) >>

\* generate_dockerfile, started with system stage sys and build context fl
GenerateDockerfile(sys, fl) ==
    Let1(GenerateBaseDockerfile(sys, fl), LAMBDA b :
        [stage |-> b.stage, files |-> b.files, err |-> b.err,
         text |-> IF b.err = "none" THEN JoinTexts(StageTexts(b.text)) ELSE <<>>])

DockerfileSystem == T("Dockerfile.system")
DockerfileUser == T("Dockerfile.user")
DockerfileDownload == T("Dockerfile.download")
DockerfileFinal == T("Dockerfile")

\* open(path, "w") creates the file or truncates it
OpenW(fl, path) == Put(fl, path, <<>>)

\* save_dockerfile: four `with open(path, "w") as f: f.write(generate())`
\* blocks; the file is opened before its text is generated
SaveDockerfile(sys, fl) ==
    Let1(GenerateBaseDockerfile(sys, OpenW(fl, DockerfileSystem)), LAMBDA b :
        IF b.err # "none" THEN [stage |-> b.stage, files |-> b.files, err |-> b.err]
        ELSE Let1(GenerateDockerfile(
                     b.stage,
                     OpenW(Put(OpenW(Put(OpenW(Put(b.files, DockerfileSystem, b.text),
                                               DockerfileUser),
                                         DockerfileUser, GenerateUserDockerfile),
                                     DockerfileDownload),
                               DockerfileDownload, GenerateDownloadDockerfile),
                           DockerfileFinal)),
                  LAMBDA d :
                     IF d.err # "none"
                     THEN [stage |-> d.stage, files |-> d.files, err |-> d.err]
                     ELSE [stage |-> d.stage,
                           files |-> Put(d.files, DockerfileFinal, d.text),
                           err |-> "none"]))

\* ------------------------------------------------------------------ actions
PlanSize == Len(calls) + Len(custom_nodes) + Len(download_operations)

\* variant: generation consumes the user instructions it emits
GenerateDockerfileCallDraining ==
    \E d \in {GenerateDockerfile(system_stage, files)} :
    /\ system_stage' = d.stage
    /\ files' = d.files
    /\ ret' = IF d.err = "none" THEN Returned("generate_dockerfile", d.text)
              ELSE Raised("generate_dockerfile", d.err)
    /\ user_stage' = <<>>
    /\ UNCHANGED <<base_image, python_version, custom_nodes,
                   download_operations, templateFiles, calls>>
    /\ NoProbe
    /\ PeerFrame

GenerateDockerfileCall ==
    \E d \in {GenerateDockerfile(system_stage, files)} :
    /\ system_stage' = d.stage
    /\ files' = d.files
    /\ ret' = IF d.err = "none" THEN Returned("generate_dockerfile", d.text)
              ELSE Raised("generate_dockerfile", d.err)
    /\ UNCHANGED <<base_image, python_version, custom_nodes, user_stage,
                   download_operations, templateFiles, calls>>
    /\ NoProbe
    /\ PeerFrame

\* save_dockerfile: the first open() raises when temp_dir is missing
SaveDockerfileCall ==
    \E s \in {IF ContextExists THEN SaveDockerfile(system_stage, files)
              ELSE [stage |-> system_stage, files |-> files,
                    err |-> "FileNotFoundError"]} :
    /\ system_stage' = s.stage
    /\ files' = s.files
    /\ ret' = IF s.err = "none" THEN Ok("save_dockerfile")
              ELSE Raised("save_dockerfile", s.err)
    /\ UNCHANGED <<base_image, python_version, custom_nodes, user_stage,
                   download_operations, templateFiles, calls>>
    /\ NoProbe
    /\ PeerFrame

\* variant: the directory's content is removed, the directory itself is kept
RmtreeLeavesDirectory(ds, d) == ds

\* shutil.rmtree(d): the directories left on disk
Rmtree(ds, d) == ds \ {d}

\* cleanup(): the build-context directory is removed with all it holds;
\* shutil.rmtree raises FileNotFoundError when the directory is missing
CleanupCall ==
    /\ NoProbe
    /\ IF ContextExists
       THEN /\ files' = NoFiles
            /\ dirs' = Rmtree(dirs, temp_dir)
            /\ temp_dir' = temp_dir
            /\ peer' = IF peer.live /\ peer.temp_dir = temp_dir
                       THEN [peer EXCEPT !.files = NoFiles] ELSE peer
            /\ ret' = Ok("cleanup")
            /\ UNCHANGED <<base_image, python_version, custom_nodes, system_stage,
                           user_stage, download_operations, templateFiles, calls>>
       ELSE /\ files' = files
            /\ ret' = Raised("cleanup", "FileNotFoundError")
            /\ UNCHANGED <<base_image, python_version, custom_nodes, system_stage,
                           user_stage, download_operations, templateFiles, calls,
                           temp_dir, peer, dirs>>

\* variant: the lines are put in front of the user stage
UserAppendFront(stage, lines) == lines \o stage

\* self.user_stage.append(line), once per line the call emits
RECURSIVE UserAppend(_, _)
UserAppend(stage, lines) ==
    IF lines = <<>> THEN stage
    ELSE UserAppend(Append(stage, Head(lines)), Tail(lines))

\* a customization call that succeeds: its lines go to the user stage
Customize(op, lines, fl) ==
    /\ Len(calls) < MaxUser
    /\ user_stage' = UserAppend(user_stage, lines)
    /\ calls' = Append(calls, lines)
    /\ files' = fl
    /\ ret' = Ok(op)
    /\ UNCHANGED <<base_image, python_version, custom_nodes, system_stage,
                   download_operations, templateFiles>>
    /\ NoProbe
    /\ PeerFrame

\* a builder call that raises exc, leaving build context fl behind
Fails(op, exc, fl) ==
    /\ files' = fl
    /\ ret' = Raised(op, exc)
    /\ UNCHANGED <<base_image, python_version, custom_nodes, system_stage, user_stage,
                   download_operations, templateFiles, calls>>
    /\ PeerFrame

RunCommands == {T("echo hi")}

Run == \E command \in RunCommands :
    Customize("run", << <<T("RUN"), command>> >>, files)

\* the loop of copy(): each source that exists in the project directory is
\* copied to temp_dir under its basename; the first absent one raises, and so
\* does shutil.copy2 when temp_dir itself is missing
RECURSIVE CopySources(_, _, _)
CopySources(g0, sources, n) ==
    IF n = 0 THEN g0
    ELSE Let1(CopySources(g0, sources, n - 1), LAMBDA g :
            IF g.err # "none" THEN g
            ELSE IF sources[n] \in ProjectFiles /\ ContextExists
                 THEN [g EXCEPT !.files = Put(@, Basename(sources[n]), ProjectText(sources[n]))]
                 ELSE [g EXCEPT !.err = "FileNotFoundError"])

RECURSIVE Basenames(_)
Basenames(sources) ==
    IF sources = <<>> THEN <<>> ELSE <<Basename(Head(sources))>> \o Basenames(Tail(sources))

DestApp == <<"/", "app", "/">>

CopyArgs == { <<>>, <<DestApp>>, <<FileA, DestApp>>, <<FileMissing, DestApp>>,
              <<FileA, FileMissing, DestApp>>, <<FileSubB, FileA, DestApp>> }

\* variant: the argument check lets a lone destination through
CopyArgsValidNonEmpty(args) == Len(args) >= 1

\* the argument check that opens copy()
CopyArgsValid(args) == Len(args) >= 2

\* copy(*args)
CopyCall(args) ==
    /\ NoProbe
    /\ IF ~CopyArgsValid(args) THEN Fails("copy", "ValueError", files)
       ELSE \E sources \in {SubSeq(args, 1, Len(args) - 1)} :
            \E c \in {CopySources(Gen(<<>>, files, "none"), sources, Len(sources))} :
               IF c.err # "none" THEN Fails("copy", c.err, c.files)
               ELSE Customize("copy",
                              << <<T("COPY")>> \o Basenames(sources)
                                 \o <<args[Len(args)]>> >>,
                              c.files)

Copy == \E args \in CopyArgs : CopyCall(args)

\* copy() calls whose sources are different files of the same name
SameNameArgs == { <<FileA, DestApp>>, <<FileSubA, DestApp>>, <<FileA, FileSubA, DestApp>> }

CopySameName == \E args \in SameNameArgs : CopyCall(args)

RECURSIVE EnvLines(_)
EnvLines(kwargs) ==
    IF kwargs = <<>> THEN <<>>
    ELSE << <<T("ENV"), <<kwargs[1][1], "=">> \o kwargs[1][2]>> >> \o EnvLines(Tail(kwargs))

EnvArgs == { << <<"K1", T("v1")>> >>, << <<"K2", T("v2")>>, <<"K1", T("v1")>> >> }

Env == \E kwargs \in EnvArgs : Customize("env", EnvLines(kwargs), files)

Workdir == \E path \in {<<"/", "app">>} :
    Customize("workdir", << <<T("WORKDIR"), path>> >>, files)

\* a command argument: a list of words, or one string
ListCommand == [islist |-> TRUE, items |-> <<T("python"), T("main.py")>>]
StrCommand == [islist |-> FALSE, items |-> <<T("python main.py")>>]

\* the JSON-array form both branches of entrypoint() and cmd() produce
ExecForm(instr, command) ==
    <<T(instr), T("[")>> \o QuoteAll(command.items) \o <<T("]")>>

Entrypoint == \E command \in {ListCommand, StrCommand} :
    Customize("entrypoint", <<ExecForm("ENTRYPOINT", command)>>, files)

Cmd == \E command \in {ListCommand, StrCommand} :
    Customize("cmd", <<ExecForm("CMD", command)>>, files)

PipInstall == \E packages \in {<<T("numpy<2")>>} :
    Customize("pip_install",
              << <<T("RUN"), T("uv pip install --system --no-cache-dir")>>
                 \o [k \in 1..Len(packages) |-> <<"'">> \o packages[k] \o <<"'">>] >>,
              files)

AptInstall == \E packages \in {<<T("curl")>>} :
    Customize("apt_install",
              << <<T("RUN"), T("apt-get update && apt-get install -y")>> \o packages
                 \o <<T("&& apt-get clean && rm -rf /var/lib/apt/lists/*")>> >>,
              files)

Add == \E url \in {T("https://example.com/w.bin")}, dest \in {<<"/", "w.bin">>} :
    Customize("add", << <<T("ADD"), url, dest>> >>, files)

RemoteOpt == <<"/", "opt", "/", "a.txt">>
RemoteConf == <<"/", "etc", "/", "conf.txt">>

\* shutil.copy2 raises when local_path does not exist
CopyLocalFile == \E local_path \in {FileA, FileMissing}, remote_path \in {RemoteOpt} :
    /\ NoProbe
    /\ IF local_path \notin ProjectFiles
       THEN Fails("copy_local_file", "FileNotFoundError", files)
       ELSE Customize("copy_local_file", << <<T("COPY"), remote_path, remote_path>> >>,
                      Put(files, LStripSlash(remote_path), ProjectText(local_path)))

FileContents == \E content \in {<< <<T("hello")>> >>}, remote_path \in {RemoteConf} :
    Customize("file_contents", << <<T("COPY"), remote_path, remote_path>> >>,
              Put(files, LStripSlash(remote_path), content))

\* ------------------------------------------------------------------ add-ons
UrlA == <<"https://x", "/", "a">>
UrlB == <<"https://x", "/", "b", ".git">>
UrlC == <<"https://x", "/", "site", ".git", "hub.io">>
MainRevision == T("main")

\* the revisions a caller passes: the default, a commit, the "-" that
\* dependency listings use for an unknown commit, and the empty string
Revisions == {MainRevision, T("abc123"), T("-"), <<>>}

\* custom_node(url, revision="main")
CustomNode == \E url \in {UrlA, UrlB}, revision \in Revisions :
    /\ Len(custom_nodes) < MaxNodes
    /\ custom_nodes' = Append(custom_nodes, <<url, revision>>)
    /\ ret' = Ok("custom_node")
    /\ UNCHANGED <<base_image, python_version, system_stage, user_stage,
                   download_operations, files, templateFiles, calls>>
    /\ NoProbe
    /\ PeerFrame

\* an entry of depends_data["custom_nodes"]: has_hash is FALSE when the "hash"
\* key is missing
NodeInfo(state, has_hash, hash) == [state |-> state, has_hash |-> has_hash, hash |-> hash]

\* variant: the state of an entry is not looked at
RECURSIVE ImportDependsAnyState(_, _)
ImportDependsAnyState(nodes, items) ==
    IF items = <<>> THEN nodes
    ELSE LET url == items[1][1]
             node_info == items[1][2]
             got == IF node_info.has_hash THEN node_info.hash ELSE T("-")
             revision == IF got = T("-") \/ got = <<>> THEN MainRevision ELSE got
         IN ImportDependsAnyState(Append(nodes, <<url, revision>>), Tail(items))

\* the loop of custom_node_from_depends over custom_nodes.items()
RECURSIVE ImportDepends(_, _)
ImportDepends(nodes, items) ==
    IF items = <<>> THEN nodes
    ELSE LET url == items[1][1]
             node_info == items[1][2]
             got == IF node_info.has_hash THEN node_info.hash ELSE T("-")
             revision == IF got = T("-") \/ got = <<>> THEN MainRevision ELSE got
         IN ImportDepends(IF node_info.state = "installed"
                          THEN Append(nodes, <<url, revision>>) ELSE nodes,
                          Tail(items))

DependsInputs ==
    { << <<UrlA, NodeInfo("installed", TRUE, T("-"))>>,
         <<UrlB, NodeInfo("not-installed", TRUE, T("deadbeef"))>> >>,
      << <<UrlB, NodeInfo("installed", FALSE, <<>>)>> >>,
      << <<UrlA, NodeInfo("installed", TRUE, <<>>)>>,
         <<UrlB, NodeInfo("installed", TRUE, T("deadbeef"))>> >>,
      << <<UrlA, NodeInfo("not-installed", TRUE, T("-"))>> >>,
      << <<UrlC, NodeInfo("installed", TRUE, T("abc123"))>> >> }

\* custom_node_from_depends(depends_data) for a dict argument
CustomNodeFromDependsCall(depends) ==
    /\ Len(ImportDepends(custom_nodes, depends)) <= MaxNodes
    /\ custom_nodes' = ImportDepends(custom_nodes, depends)
    /\ ret' = Ok("custom_node_from_depends")
    /\ UNCHANGED <<base_image, python_version, system_stage, user_stage,
                   download_operations, files, templateFiles, calls>>
    /\ NoProbe
    /\ PeerFrame

CustomNodeFromDepends == \E depends \in DependsInputs : CustomNodeFromDependsCall(depends)

\* ---------------------------------------------------------------- downloads
RelPath == <<"checkpoints", "/", "m.bin">>
AbsPath == <<"/", "data", "/", "m.bin">>
AbsResolved == <<"/", "comfyui", "/", "models", "/", "checkpoints", "/", "m.bin">>

\* self.buildkit.download_operations.append(operation)
Declare(op, operation) ==
    /\ Len(download_operations) < MaxDownloads
    /\ download_operations' = Append(download_operations, operation)
    /\ ret' = Ok(op)
    /\ UNCHANGED <<base_image, python_version, custom_nodes, system_stage, user_stage,
                   files, templateFiles, calls>>
    /\ PeerFrame

HfFileArgs ==
    { <<T("repoA"), T("m.bin"), RelPath, NoneVal, NoneVal>>,
      <<T("repoA"), T("m.bin"), AbsResolved, NoneVal, NoneVal>>,
      <<T("repoB"), T("n.bin"), AbsPath, T("v1"), T("tok")>> }

\* Models.hf_file(repo_id, filename, local_path, revision, token)
HfFileCall(a) ==
    /\ NoProbe
    /\ Declare("hf_file", HFFileDownload(a[1], a[2], a[3], a[4], a[5]))

HfFile == \E a \in HfFileArgs : HfFileCall(a)

HfSnapshotArgs ==
    { <<T("repoA"), <<"loras">>, NoneVal, <<NoneVal>>, NoneVal>>,
      <<T("repoB"), <<"/", "data">>, T("v1"), <<T("*.bin")>>, T("tok")>> }

\* Models.hf_snapshot(repo_id, local_dir, revision, ignore_patterns, token)
HfSnapshotCall(a) ==
    /\ NoProbe
    /\ Declare("hf_snapshot", HFSnapshotDownload(a[1], a[2], a[3], a[4], a[5]))

HfSnapshot == \E a \in HfSnapshotArgs : HfSnapshotCall(a)

WgetArgs == { <<T("http://example.com/model.bin"), RelPath>>,
              <<T("http://example.com/model.bin"), AbsPath>> }

\* Models.wget(url, local_path)
WgetCall(a) ==
    /\ NoProbe
    /\ Declare("wget", URLDownload(a[1], a[2]))

Wget == \E a \in WgetArgs : WgetCall(a)

\* what the HEAD probe of _get_file_name can come back with
NetOutcomes ==
    { [kind |-> "error", name |-> <<>>, path |-> <<>>],
      [kind |-> "disposition", name |-> T("resolved.safetensors"), path |-> <<>>],
      [kind |-> "location", name |-> <<>>, path |-> <<"https://s3.example", "/", "blob.bin">>],
      [kind |-> "nolocation", name |-> <<>>, path |-> <<>>] }

AbsDir == <<"/", "data", "/", "loras">>

CivitaiArgs ==
    { <<T("329420"), RelPath, NoneVal, T("named.safetensors")>>,
      <<T("329420"), AbsPath, T("tok"), NoneVal>>,
      <<T("329420"), AbsDir, NoneVal, T("named.safetensors")>> }

\* Models.civitai(model_id, local_path, token, model_name): the operation is
\* constructed first; when that raises nothing is appended
CivitaiCall(a, net) ==
    /\ probes' = Probes(a[4])
    /\ request' = request
    /\ installer' = installer
    /\ IF CivitaiRaises(a[4], net)
       THEN Fails("civitai", "RequestException", files)
       ELSE Declare("civitai", CivitaiDownload(a[1], a[2], a[3], a[4], net))

Civitai == \E a \in CivitaiArgs, net \in NetOutcomes : CivitaiCall(a, net)

\* Models.civitai without a model_name, step by step.  _get_file_name calls
\* requests.head(api_url, headers=headers, allow_redirects=False): no timeout
\* argument is passed, so the call waits for the endpoint as long as it takes
CivitaiSend(a) ==
    /\ request.state = "idle"
    /\ ~Truthy(a[4])
    /\ Len(download_operations) < MaxDownloads
    /\ request' = [state |-> "sent", args |-> a, net |-> <<>>]
    /\ probes' = 1
    /\ installer' = installer
    /\ UNCHANGED <<base_image, python_version, custom_nodes, system_stage, user_stage,
                   download_operations, files, templateFiles, ret, calls>>
    /\ PeerFrame

\* the endpoint answers the HEAD request, or the transport reports an error
HeadAnswers(net) ==
    /\ request.state = "sent"
    /\ request' = [request EXCEPT !.state = "answered", !.net = net]
    /\ UNCHANGED <<base_image, python_version, custom_nodes, system_stage, user_stage,
                   download_operations, files, templateFiles, ret, calls, probes,
                   installer>>
    /\ PeerFrame

\* requests.head has returned or raised: the construction ends, and the
\* operation is appended unless it raised
CivitaiReturn ==
    /\ request.state = "answered"
    /\ request' = NoRequest
    /\ probes' = probes
    /\ installer' = installer
    /\ IF CivitaiRaises(request.args[4], request.net)
       THEN Fails("civitai", "RequestException", files)
       ELSE Declare("civitai", CivitaiDownload(request.args[1], request.args[2],
                                               request.args[3], request.args[4],
                                               request.net))

\* the caller is blocked while a request is in flight
Idle == request.state = "idle"

\* ------------------------------------------------- the add-on installers
\* the two installer scripts of the repository that loop over a manifest
NodesScript == "20-install-nodes.py"
ComfyAndNodesScript == "install-comfy-and-nodes.py"

\* the manifests an installer can find in the image
ManifestNodes ==
    { <<u>> : u \in {UrlA, UrlB, UrlC} }
        \cup { <<u, v>> : u \in {UrlA, UrlB, UrlC}, v \in {UrlA, UrlB, UrlC} }

\* what installing one add-on can come to: all steps succeed, git clone
\* fails, git checkout fails, or a dependency-install hook
\* (requirements.txt / install.py) fails
NodeOutcomes == {"ok", "clone_fails", "checkout_fails", "hook_fails"}

\* install_custom_nodes is entered with the manifest loaded
InstallerStart ==
    \E script \in {NodesScript, ComfyAndNodesScript}, nodes \in ManifestNodes :
    /\ installer.status # "running"
    /\ installer' = [script |-> script, status |-> "running", manifest |-> nodes,
                     next |-> 1, attempted |-> <<>>, log |-> <<>>]
    /\ probes' = probes
    /\ request' = request
    /\ UNCHANGED <<base_image, python_version, custom_nodes, system_stage, user_stage,
                   download_operations, files, templateFiles, ret, calls, temp_dir,
                   peer, dirs>>

\* True when the loop body lets the failure out of install_custom_nodes:
\* subprocess.run(..., check=True) for clone and checkout is outside any try
\* in both scripts; 20-install-nodes.py wraps the hooks in a try that raises
\* again, install-comfy-and-nodes.py in one that prints and goes on
InstallerRaises(script, outcome) ==
    \/ outcome \in {"clone_fails", "checkout_fails"}
    \/ outcome = "hook_fails" /\ script = NodesScript

\* one iteration of `for node in custom_nodes`
InstallNode ==
    \E outcome \in NodeOutcomes :
    /\ installer.status = "running"
    /\ installer.next <= Len(installer.manifest)
    /\ installer' =
          [installer EXCEPT
             !.attempted = Append(@, installer.next),
             !.next = @ + 1,
             !.log = IF outcome = "ok" THEN @ ELSE Append(@, <<installer.next, outcome>>),
             !.status = IF InstallerRaises(installer.script, outcome)
                        THEN "aborted" ELSE "running"]
    /\ probes' = probes
    /\ request' = request
    /\ UNCHANGED <<base_image, python_version, custom_nodes, system_stage, user_stage,
                   download_operations, files, templateFiles, ret, calls, temp_dir,
                   peer, dirs>>

\* the loop is over: the script cleans the package cache and exits normally
InstallerFinish ==
    /\ installer.status = "running"
    /\ installer.next > Len(installer.manifest)
    /\ installer' = [installer EXCEPT !.status = "done"]
    /\ probes' = probes
    /\ request' = request
    /\ UNCHANGED <<base_image, python_version, custom_nodes, system_stage, user_stage,
                   download_operations, files, templateFiles, ret, calls, temp_dir,
                   peer, dirs>>

\* ------------------------------------------------------------ two plans
\* this instance, as the other one's peer
Self ==
    [live |-> TRUE, temp_dir |-> temp_dir, base_image |-> base_image,
     python_version |-> python_version, custom_nodes |-> custom_nodes,
     system_stage |-> system_stage, user_stage |-> user_stage,
     download_operations |-> download_operations, files |-> files, calls |-> calls]

\* ComfyBuildkit() called a second time: the new instance gets lists of its own
\* and the directory mkdtemp creates
NewPlan ==
    /\ ~peer.live
    /\ \E d \in Mkdtemp(dirs) :
          /\ peer' = [live |-> TRUE, temp_dir |-> d, base_image |-> T("ubuntu:22.04"),
                      python_version |-> T("3.11"), custom_nodes |-> <<>>,
                      system_stage |-> <<>>, user_stage |-> <<>>,
                      download_operations |-> <<>>,
                      files |-> IF d = temp_dir THEN files ELSE NoFiles,
                      calls |-> <<>>]
          /\ dirs' = dirs \cup {d}
    /\ ret' = Ok("__init__")
    /\ NoProbe
    /\ UNCHANGED <<base_image, python_version, custom_nodes, system_stage, user_stage,
                   download_operations, files, templateFiles, calls, temp_dir>>

\* the caller addresses its next calls to the other instance
Turn ==
    /\ peer.live
    /\ base_image' = peer.base_image
    /\ python_version' = peer.python_version
    /\ custom_nodes' = peer.custom_nodes
    /\ system_stage' = peer.system_stage
    /\ user_stage' = peer.user_stage
    /\ download_operations' = peer.download_operations
    /\ files' = peer.files
    /\ calls' = peer.calls
    /\ temp_dir' = peer.temp_dir
    /\ peer' = Self
    /\ ret' = Ok("__init__")
    /\ NoProbe
    /\ UNCHANGED <<templateFiles, dirs>>

PeerSize == Len(peer.calls) + Len(peer.custom_nodes) + Len(peer.download_operations)

\* ------------------------------------------------------------ specification
\* every call that builds, generates or saves a plan, any kinds interleaved,
\* MaxCalls builder calls deep, on a plan whose build context has not been
\* cleaned up
Budget == PlanSize < MaxCalls

Next ==
    \/ Budget /\ Run
    \/ Budget /\ Copy
    \/ Budget /\ Env
    \/ Budget /\ Workdir
    \/ Budget /\ Entrypoint
    \/ Budget /\ Cmd
    \/ Budget /\ PipInstall
    \/ Budget /\ AptInstall
    \/ Budget /\ Add
    \/ Budget /\ CopyLocalFile
    \/ Budget /\ FileContents
    \/ Budget /\ CustomNode
    \/ Budget /\ CustomNodeFromDepends
    \/ Budget /\ HfFile
    \/ Budget /\ HfSnapshot
    \/ Budget /\ Wget
    \/ Budget /\ Civitai
    \/ GenerateDockerfileCall
    \/ SaveDockerfileCall

Spec == Init /\ [][Next]_vars

\* the customization calls and generation, with every template in the package
InitUser == Init /\ templateFiles = FullTemplates

NextUser ==
    \/ Run
    \/ Copy
    \/ Env
    \/ Workdir
    \/ Entrypoint
    \/ Cmd
    \/ PipInstall
    \/ AptInstall
    \/ Add
    \/ CopyLocalFile
    \/ FileContents
    \/ GenerateDockerfileCall

SpecUser == InitUser /\ [][NextUser]_vars

\* the download declarations, generation and saving, with every template in
\* the package
InitDownload == Init /\ templateFiles = FullTemplates

NextDownload ==
    \/ HfFile
    \/ HfSnapshot
    \/ Wget
    \/ Civitai
    \/ GenerateDockerfileCall
    \/ SaveDockerfileCall

SpecDownload == InitDownload /\ [][NextDownload]_vars

\* one call of each kind of declaration, generation and saving, in every
\* template environment
PlanBudget == PlanSize < MaxPlan

NextPlan ==
    \/ PlanBudget /\ Run
    \/ PlanBudget /\ CustomNode
    \/ PlanBudget /\ Wget
    \/ GenerateDockerfileCall
    \/ SaveDockerfileCall

SpecPlan == Init /\ [][NextPlan]_vars

\* the add-on declarations, generation and saving, in every template
\* environment
NextNodes ==
    \/ CustomNode
    \/ CustomNodeFromDepends
    \/ GenerateDockerfileCall
    \/ SaveDockerfileCall

SpecNodes == Init /\ [][NextNodes]_vars

\* two instances, the calls on them interleaved, MaxTwoPlans builder calls
\* between them, with every template in the package
TwoBudget == PlanSize + PeerSize < MaxTwoPlans

InitTwoPlans == Init /\ templateFiles = FullTemplates

NextTwoPlans ==
    \/ NewPlan
    \/ Turn
    \/ TwoBudget /\ FileContents
    \/ TwoBudget /\ CustomNode
    \/ TwoBudget /\ Wget
    \/ GenerateDockerfileCall
    \/ SaveDockerfileCall

SpecTwoPlans == InitTwoPlans /\ [][NextTwoPlans]_vars

\* the calls that write into the build context, generation, saving and
\* cleanup, with every template in the package
NextContext ==
    \/ PlanBudget /\ FileContents
    \/ PlanBudget /\ Copy
    \/ PlanBudget /\ CopyLocalFile
    \/ PlanBudget /\ CustomNode
    \/ GenerateDockerfileCall
    \/ SaveDockerfileCall
    \/ CleanupCall

SpecContext == InitUser /\ [][NextContext]_vars

\* the calls that place caller files in the build context, sources of the
\* same name included, and generation, with every template in the package
NextOverwrite ==
    \/ CopySameName
    \/ Copy
    \/ CopyLocalFile
    \/ FileContents
    \/ GenerateDockerfileCall

SpecOverwrite == InitUser /\ [][NextOverwrite]_vars

\* a run of an add-on installer script in the image build
NextInstaller ==
    \/ InstallerStart
    \/ InstallNode
    \/ InstallerFinish

SpecInstaller == InitUser /\ [][NextInstaller]_vars

\* the marketplace declarations step by step, with the other download
\* declarations and generation; the library's own steps are taken when they
\* are enabled, the endpoint is under no obligation to answer
NextProbe ==
    \/ \E a \in CivitaiArgs : CivitaiSend(a)
    \/ \E net \in NetOutcomes : HeadAnswers(net)
    \/ CivitaiReturn
    \/ Idle /\ Wget
    \/ Idle /\ GenerateDockerfileCall

SpecProbe == InitDownload /\ [][NextProbe]_vars /\ WF_vars(CivitaiReturn)

TypeOK ==
    /\ request.state \in {"idle", "sent", "answered"}
    /\ dirs \subseteq TempDirs
    /\ installer.status \in {"idle", "running", "aborted", "done"}
    /\ ret.status \in {"ok", "ValueError", "FileNotFoundError", "RequestException"}
    /\ Len(calls) <= MaxUser
    /\ Len(custom_nodes) <= MaxNodes
    /\ Len(download_operations) <= MaxDownloads

\* ------------------------------------------------- reading a descriptor back
\* what a build engine sees in a descriptor text: a stage opens at each
\* "FROM <base> AS <name>" line and runs to the next one
IsFrom(line) == Len(line) = 4 /\ line[1] = T("FROM") /\ line[3] = T("AS")

FromIndexes(text) ==
    SelectSeq([i \in 1..Len(text) |-> i], LAMBDA i : IsFrom(text[i]))

NonBlank(lines) == SelectSeq(lines, LAMBDA l : l # <<>>)

Stages(text) ==
    LET idx == FromIndexes(text) IN
    [k \in 1..Len(idx) |->
        [name |-> text[idx[k]][4],
         base |-> text[idx[k]][2],
         first |-> text[idx[k]],
         body |-> NonBlank(SubSeq(text, idx[k] + 1,
                                  IF k < Len(idx) THEN idx[k + 1] - 1 ELSE Len(text)))]]

IsDownloadName(name) == Len(name) = 2 /\ name[1] = "download_"

DownloadStagesOf(text) == SelectSeq(Stages(text), LAMBDA st : IsDownloadName(st.name))

StageNamesOf(text) == [k \in 1..Len(Stages(text)) |-> Stages(text)[k].name]

DownloadNamesOf(text) ==
    [k \in 1..Len(DownloadStagesOf(text)) |-> DownloadStagesOf(text)[k].name]

IsCopyFrom(line) ==
    /\ Len(line) = 4
    /\ line[1] = T("COPY")
    /\ Len(line[2]) > 1
    /\ line[2][1] = "--from="

CopyFromLines(lines) == SelectSeq(lines, IsCopyFrom)

CopyFromTarget(line) == Tail(line[2])

Range(f) == {f[i] : i \in DOMAIN f}

IsPrefix(a, b) == Len(a) <= Len(b) /\ a = SubSeq(b, 1, Len(a))

\* the descriptor the latest call returned, when it is generate_dockerfile
Generated == ret.op = "generate_dockerfile" /\ ret.status = "ok"

StageNamed(text, name) ==
    LET st == Stages(text) IN st[CHOOSE k \in 1..Len(st) : st[k].name = name]

\* ------------------------------------------------------------------ claims
\* C1: in every descriptor generate_dockerfile returns, the stages named by the
\* final stage's COPY --from lines are exactly the download stages declared
\* earlier in that descriptor, and every download stage opens with the line
\* FROM <system stage> AS <name> (the system stage is named system_stage).
C1_StageDependency ==
    Generated =>
        LET st == Stages(ret.text)
            final == st[Len(st)]
            dl == DownloadStagesOf(ret.text)
        IN /\ final.name = FinalStageName
           /\ {CopyFromTarget(l) : l \in Range(CopyFromLines(final.body))}
                 = {dl[k].name : k \in 1..Len(dl)}
           /\ \A k \in 1..Len(dl) :
                 dl[k].first = <<T("FROM"), SystemStageName, T("AS"), dl[k].name>>
           /\ Len(dl) = Len(download_operations)

C1_Witness ==
    /\ Generated
    /\ Len(DownloadStagesOf(ret.text)) = 2
    /\ DownloadNamesOf(ret.text)[1] # DownloadNamesOf(ret.text)[2]
    /\ Len(CopyFromLines(Stages(ret.text)[Len(Stages(ret.text))].body)) = 2

\* C2: with no builder call in between, every generate_dockerfile call returns
\* what the previous generation returned or saved (the same text, or the same
\* error), also when save_dockerfile calls are interleaved.
C2_GenerateIdempotent ==
    [][ /\ (GenerateDockerfileCall /\ ret.op = "generate_dockerfile") => ret' = ret
        /\ (GenerateDockerfileCall /\ ret.op = "save_dockerfile")
              => /\ ret'.status = ret.status
                 /\ ret.status = "ok" => ret'.text = files[DockerfileFinal]
        /\ (SaveDockerfileCall /\ ret.op = "generate_dockerfile")
              => /\ ret'.status = ret.status
                 /\ ret.status = "ok" => files'[DockerfileFinal] = ret.text
        /\ (SaveDockerfileCall /\ ret.op = "save_dockerfile")
              => /\ ret'.status = ret.status
                 /\ ret.status = "ok" => files'[DockerfileFinal] = files[DockerfileFinal]
      ]_vars

C2_Witness ==
    /\ Generated
    /\ DockerfileFinal \in DOMAIN files
    /\ files[DockerfileFinal] = ret.text
    /\ custom_nodes # <<>>
    /\ download_operations # <<>>

\* C3: generate_dockerfile and save_dockerfile leave the declared plan as it
\* was: base image, runtime version, add-ons, user instructions and download
\* operations.
C3_GenerationKeepsPlan ==
    [][(GenerateDockerfileCall \/ SaveDockerfileCall) => UNCHANGED plan]_vars

C3_Witness ==
    /\ ret.op = "save_dockerfile"
    /\ ret.status = "ok"
    /\ user_stage # <<>>
    /\ download_operations # <<>>
    /\ DockerfileFinal \in DOMAIN files
    /\ files[DockerfileFinal] # <<>>

\* C4: the stage name of a download operation is download_<hash> and depends
\* on the operation's resolved attributes only: within a descriptor equal
\* operations carry equal names whatever their positions, and an operation keeps
\* the name it had in a descriptor saved before further operations were declared.
C4_StageNameOfFieldsOnly ==
    Generated =>
        LET names == DownloadNamesOf(ret.text) IN
        /\ Len(names) = Len(download_operations)
        /\ \A i, j \in 1..Len(names) :
              download_operations[i] = download_operations[j] => names[i] = names[j]
        /\ (DockerfileFinal \in DOMAIN files /\ files[DockerfileFinal] # <<>>)
              => IsPrefix(DownloadNamesOf(files[DockerfileFinal]), names)

C4_Witness ==
    /\ Generated
    /\ Len(download_operations) = 2
    /\ download_operations[1] = download_operations[2]
    /\ DockerfileFinal \in DOMAIN files
    /\ Len(DownloadNamesOf(files[DockerfileFinal])) = 1

\* C5: the final stage holds one COPY --from=<stage> <path> <path> line per
\* declared download operation, in declaration order, the i-th naming the i-th
\* download stage and the i-th operation's output path; equal operations are
\* not merged.
C5_FinalCopyPerOperation ==
    Generated =>
        LET st == Stages(ret.text)
            names == DownloadNamesOf(ret.text)
        IN /\ Len(names) = Len(download_operations)
           /\ st[Len(st)].body =
                 [i \in 1..Len(download_operations) |->
                     <<T("COPY"), <<"--from=">> \o names[i],
                       GetOutputPath(download_operations[i]),
                       GetOutputPath(download_operations[i])>>]

C5_Witness ==
    /\ Generated
    /\ Len(download_operations) = 2
    /\ download_operations[1] = download_operations[2]
    /\ Len(Stages(ret.text)[Len(Stages(ret.text))].body) = 2

\* C6: a descriptor lists the system stage, then the download stages in the
\* order of their declarations, then the user stage, then the final stage, and
\* a stage is declared before every stage that names it.
C6_StageOrder ==
    Generated =>
        LET st == Stages(ret.text)
            n == Len(download_operations)
        IN /\ Len(st) = n + 3
           /\ st[1].name = SystemStageName
           /\ \A i \in 1..n :
                 /\ IsDownloadName(st[i + 1].name)
                 /\ st[i + 1].body = GetDockerfileCommands(download_operations[i])
           /\ st[n + 2].name = UserStageName
           /\ st[n + 3].name = FinalStageName
           /\ \A k \in 2..Len(st) :
                 /\ \E j \in 1..(k - 1) : st[j].name = st[k].base
                 /\ \A l \in Range(CopyFromLines(st[k].body)) :
                       \E j \in 1..(k - 1) : st[j].name = CopyFromTarget(l)

C6_Witness ==
    /\ Generated
    /\ Len(download_operations) = 2
    /\ download_operations[1].kind # download_operations[2].kind
    /\ Len(Stages(ret.text)) = 5

\* C7: the user stage of a descriptor is FROM <system stage> AS <user stage>
\* followed by the instructions of the customization calls made, in call order,
\* none dropped, merged or moved.
C7_UserStageInCallOrder ==
    Generated =>
        LET u == StageNamed(ret.text, UserStageName) IN
        /\ u.first = <<T("FROM"), SystemStageName, T("AS"), UserStageName>>
        /\ u.body = Flatten(calls)

C7_Witness ==
    /\ Generated
    /\ Len(calls) = 2
    /\ calls[1] # calls[2]
    /\ Len(StageNamed(ret.text, UserStageName).body) >= 2

\* C8: copy() with fewer than two arguments raises ValueError and changes
\* neither the plan nor the build context.
C8_CopyTooFewArguments ==
    [][\A args \in CopyArgs :
          (Len(args) < 2 /\ CopyCall(args))
             => /\ ret' = Raised("copy", "ValueError")
                /\ UNCHANGED <<plan, system_stage, files, calls>>]_vars

C8_Witness ==
    /\ ret = Raised("copy", "ValueError")
    /\ user_stage # <<>>
    /\ files # NoFiles

\* C9: copy() with an absent source raises FileNotFoundError, appends no COPY
\* instruction, and leaves in the build context exactly the files it held
\* before, wherever the absent source stands among the sources.
C9_CopyMissingSourceLeavesContext ==
    [][\A args \in CopyArgs :
          (/\ Len(args) >= 2
           /\ \E k \in 1..(Len(args) - 1) : args[k] \notin ProjectFiles
           /\ CopyCall(args))
             => /\ ret' = Raised("copy", "FileNotFoundError")
                /\ UNCHANGED <<user_stage, files>>]_vars

\* C10: every descriptor file of the build context is absent or holds a
\* complete descriptor, never an empty or truncated one, also after a
\* save_dockerfile that generation aborted.
C10_NoPartialDescriptor ==
    \A f \in {DockerfileFinal, DockerfileSystem, DockerfileDownload, DockerfileUser} :
        f \in DOMAIN files => files[f] # <<>>

\* --------------------------------------------------- reading a manifest back
ManifestPath == T("20-install-nodes.json")

\* the objects of a manifest payload: its lines "url .. hash .. repo_name .."
IsManifestRecord(line) ==
    /\ Len(line) = 6
    /\ line[1] = T("url")
    /\ line[3] = T("hash")
    /\ line[5] = T("repo_name")

ManifestRecords(text) == SelectSeq(text, IsManifestRecord)

\* a JSON array: "[", objects only, "]"
IsManifestArray(text) ==
    /\ Len(text) >= 2
    /\ text[1] = <<T("[")>>
    /\ text[Len(text)] = <<T("]")>>
    /\ Len(ManifestRecords(text)) = Len(text) - 2

\* the instructions of the add-on install block
NodeBlockLines ==
    { <<T("COPY"), ManifestPath, ManifestPath>>,
      <<T("COPY"), T("20-install-nodes.py"), <<"/", "20-install-nodes.py">> >>,
      <<T("RUN"), T("python3"), <<"/", "20-install-nodes.py">> >> }

\* C11: no record of an add-on manifest written to the build context has a
\* hash of "-" or the empty string, whether the add-on was declared through
\* custom_node or through custom_node_from_depends.
C11_ManifestRevisionsResolved ==
    (ManifestPath \in DOMAIN files /\ IsManifestArray(files[ManifestPath])) =>
        \A r \in Range(ManifestRecords(files[ManifestPath])) :
            r[4] # T("-") /\ r[4] # <<>>

\* the entries custom_node_from_depends has to import: those whose state is
\* "installed", in input order, the hash resolved
DependsInstalled(depends) == SelectSeq(depends, LAMBDA e : e[2].state = "installed")

DependsExpected(depends) ==
    [k \in 1..Len(DependsInstalled(depends)) |->
        LET e == DependsInstalled(depends)[k] IN
        <<e[1], IF ~e[2].has_hash \/ e[2].hash = T("-") \/ e[2].hash = <<>>
                THEN T("main") ELSE e[2].hash>>]

\* C12: custom_node_from_depends appends, after the add-ons already declared,
\* one (url, revision) pair per entry whose state is "installed", in input
\* order, and nothing for any other entry; a hash of "-", empty or missing
\* becomes "main".
C12_DependsImportsInstalled ==
    [][\A depends \in DependsInputs :
          CustomNodeFromDependsCall(depends)
             => custom_nodes' = custom_nodes \o DependsExpected(depends)]_vars

C12_Witness ==
    /\ ret.op = "custom_node_from_depends"
    /\ Len(custom_nodes) = 2
    /\ custom_nodes[1] = <<UrlB, T("abc123")>>
    /\ custom_nodes[2] = <<UrlA, T("main")>>

\* C13: in every descriptor generate_dockerfile returns, the add-on install
\* block (COPY of the manifest, COPY of the installer script, RUN of the
\* script) stands in the system stage exactly when an add-on is declared, and
\* then the manifest of the build context is a JSON array holding one
\* {url, hash, repo_name} object per declared add-on, in declaration order.
C13_NodeBlockAndManifest ==
    Generated =>
        LET body == StageNamed(ret.text, SystemStageName).body IN
        /\ (custom_nodes # <<>>) <=> (NodeBlockLines \subseteq Range(body))
        /\ (custom_nodes = <<>>) <=> (NodeBlockLines \cap Range(body) = {})
        /\ custom_nodes # <<>> =>
              /\ ManifestPath \in DOMAIN files
              /\ IsManifestArray(files[ManifestPath])
              /\ LET recs == ManifestRecords(files[ManifestPath]) IN
                 /\ Len(recs) = Len(custom_nodes)
                 /\ \A k \in 1..Len(recs) :
                       recs[k][2] = custom_nodes[k][1] /\ recs[k][4] = custom_nodes[k][2]

\* ------------------------------------------- reading an operation's commands
\* the operation a declaration has just appended
Declared == download_operations'[Len(download_operations')]

\* the app root the system stage launches, and its models directory
AppRoot == Dirname(LaunchWords[2])
AppModels == PathJoin(AppRoot, <<"models">>)

\* the path at which the commands of an operation leave the artifact:
\* hf_hub_download(filename, local_dir) writes local_dir/filename,
\* snapshot_download(local_dir) fills local_dir, ADD url dest writes dest,
\* wget -O path writes path
MaterializedPath(op) ==
    LET cmds == GetDockerfileCommands(op) IN
    IF op.kind = "HFFileDownload" THEN PathJoin(cmds[1][8], cmds[1][6])
    ELSE IF op.kind = "HFSnapshotDownload" THEN cmds[1][6]
    ELSE IF op.kind = "URLDownload" THEN cmds[1][3]
    ELSE cmds[Len(cmds)][3]

\* C14: a destination that begins with "/" is the operation's resolved
\* destination as it stands: the file path of hf_file and wget, the directory
\* of hf_snapshot and civitai.
C14_AbsoluteDestinationVerbatim ==
    [][ /\ \A a \in HfFileArgs :
              (StartsWithSlash(a[3]) /\ HfFileCall(a)) => Declared.local_path = a[3]
        /\ \A a \in HfSnapshotArgs :
              (StartsWithSlash(a[2]) /\ HfSnapshotCall(a)) => Declared.local_dir = a[2]
        /\ \A a \in WgetArgs :
              (StartsWithSlash(a[2]) /\ WgetCall(a)) => Declared.local_path = a[2]
        /\ \A a \in CivitaiArgs, net \in NetOutcomes :
              (StartsWithSlash(a[2]) /\ CivitaiCall(a, net) /\ ret'.status = "ok")
                 => Declared.local_dir = a[2]
      ]_vars

\* C15: a destination that does not begin with "/" resolves under the models
\* directory of the app root the system stage launches, for each of the four
\* variants; wget to checkpoints/m.bin has the output path
\* <app root>/models/checkpoints/m.bin and the single instruction
\* ADD <url> <that path>.
C15_RelativeDestinationUnderAppModels ==
    [][ /\ \A a \in HfFileArgs :
              (~StartsWithSlash(a[3]) /\ HfFileCall(a))
                 => GetOutputPath(Declared) = PathJoin(AppModels, a[3])
        /\ \A a \in HfSnapshotArgs :
              (~StartsWithSlash(a[2]) /\ HfSnapshotCall(a))
                 => GetOutputPath(Declared) = PathJoin(AppModels, a[2])
        /\ \A a \in WgetArgs :
              (~StartsWithSlash(a[2]) /\ WgetCall(a))
                 => /\ GetOutputPath(Declared) = PathJoin(AppModels, a[2])
                    /\ GetDockerfileCommands(Declared)
                          = << <<T("ADD"), a[1], PathJoin(AppModels, a[2])>> >>
        /\ \A a \in CivitaiArgs, net \in NetOutcomes :
              (~StartsWithSlash(a[2]) /\ CivitaiCall(a, net) /\ ret'.status = "ok")
                 => IsPrefix(AppModels \o <<Slash>>, GetOutputPath(Declared))
      ]_vars

\* C16: the commands of every declared download operation leave the artifact
\* at the path get_output_path() returns, the path the final stage copies from.
C16_OutputPathIsMaterialized ==
    \A i \in 1..Len(download_operations) :
        MaterializedPath(download_operations[i]) = GetOutputPath(download_operations[i])

\* ------------------------------------------------ reading COPY sources back
\* a COPY instruction that takes its sources from the build context
IsContextCopy(line) ==
    /\ Len(line) >= 3
    /\ line[1] = T("COPY")
    /\ ~IsCopyFrom(line)

ContextCopySources(line) == Range(SubSeq(line, 2, Len(line) - 1))

\* the file of the build context a COPY source names: sources are taken
\* relative to the root of the context, a leading "/" included
ContextPath(source) == LStripSlash(source)

Saved == ret.op = "save_dockerfile" /\ ret.status = "ok"

C18_ExplicitNameBypassesProbe ==
    [][\A a \in CivitaiArgs, net \in NetOutcomes :
          (Truthy(a[4]) /\ CivitaiCall(a, net))
             => /\ probes' = 0
                /\ ret' = Ok("civitai")
                /\ Declared.file_name = a[4]
                /\ GetOutputPath(Declared) = PathJoin(Declared.local_dir, a[4])]_vars

C18_Witness ==
    /\ ret = Ok("civitai")
    /\ probes = 0
    /\ Len(download_operations) = 2
    /\ download_operations[2].kind = "CivitaiDownload"
    /\ download_operations[2].model_name = T("named.safetensors")
    /\ GetOutputPath(download_operations[2])
          = PathJoin(download_operations[2].local_dir, T("named.safetensors"))

\* C19: when the name probe of models.civitai fails (transport error or error
\* status), the call raises that error and appends no operation: the plan and
\* the build context are as before the call.
C19_FailedProbeRaises ==
    [][\A a \in CivitaiArgs, net \in NetOutcomes :
          (~Truthy(a[4]) /\ net.kind = "error" /\ CivitaiCall(a, net))
             => /\ ret' = Raised("civitai", "RequestException")
                /\ probes' = 1
                /\ UNCHANGED <<plan, system_stage, files, calls>>]_vars

C19_Witness ==
    /\ ret = Raised("civitai", "RequestException")
    /\ probes = 1
    /\ Len(download_operations) = 1
    /\ download_operations[1].kind = "CivitaiDownload"

\* C20: two plan instances hold different build-context directories, and a
\* builder, generate or save call on one of them leaves the other's lists and
\* the files of the other's build context as they were.
C20_PlansShareNothing ==
    /\ [](peer.live => peer.temp_dir # temp_dir)
    /\ [][(peer.live /\ ~Turn) => peer' = peer]_vars

C20_Witness ==
    /\ peer.live
    /\ Saved
    /\ DockerfileFinal \in DOMAIN files
    /\ DockerfileFinal \in DOMAIN peer.files
    /\ files[DockerfileFinal] # peer.files[DockerfileFinal]
    /\ custom_nodes # peer.custom_nodes

\* ------------------------------------------------ reading the system stage
IsCmd(line) == Len(line) >= 1 /\ line[1] = T("CMD")

\* the instruction that runs the core-runtime installer, and the add-on one
ComfyRunLine == <<T("RUN"), T("python3"), <<"/", "10-install-comfy.py">> >>
NodesRunLine == <<T("RUN"), T("python3"), <<"/", "20-install-nodes.py">> >>

\* C21: in every descriptor generate_dockerfile returns, with or without
\* download operations, the system stage (from the base-image FROM up to the
\* next FROM) opens with the base image declaration, holds the core-runtime
\* install block before the add-on install block, and ends with the default
\* launch command (CMD).
C21_SystemStageShape ==
    Generated =>
        LET sys == Stages(ret.text)[1]
            body == sys.body
        IN /\ sys.first = FromLine(base_image, SystemStageName)
           /\ \E i \in 1..Len(body) : body[i] = ComfyRunLine
           /\ \A i, j \in 1..Len(body) :
                 (body[i] = ComfyRunLine /\ body[j] \in NodeBlockLines) => i < j
           /\ (custom_nodes # <<>>) => \E j \in 1..Len(body) : body[j] = NodesRunLine
           /\ body # <<>>
           /\ IsCmd(body[Len(body)])

\* a token of the line holds the stage name (as "FROM x", "--from=x", ...)
Mentions(line, name) ==
    \E t \in Range(line) :
        \E i \in 1..Len(t) :
            i + Len(name) - 1 <= Len(t) /\ SubSeq(t, i, i + Len(name) - 1) = name

\* C22: in every descriptor generate_dockerfile returns, the stages form the
\* two-level graph system -> {download*, user} -> final: the user stage is
\* built on the system stage, the final stage on the user stage, every
\* download stage on the system stage, and the block of a download operation
\* (its FROM line and instructions) is determined by that operation alone and
\* names no other download stage nor the user stage.
C22_StageDag ==
    Generated =>
        LET dl == DownloadStagesOf(ret.text)
            names == Range(StageNamesOf(ret.text))
        IN /\ StageNamed(ret.text, SystemStageName).base = base_image
           /\ StageNamed(ret.text, UserStageName).base = SystemStageName
           /\ StageNamed(ret.text, FinalStageName).base = UserStageName
           /\ Len(dl) = Len(download_operations)
           /\ \A k \in 1..Len(dl) :
                 /\ dl[k].base = SystemStageName
                 /\ dl[k].name = StageName(download_operations[k])
                 /\ dl[k].body = NonBlank(GetDockerfileCommands(download_operations[k]))
                 /\ \A n \in names \ {dl[k].name, SystemStageName} :
                       /\ ~Mentions(dl[k].first, n)
                       /\ \A l \in Range(dl[k].body) : ~Mentions(l, n)

C22_Witness ==
    /\ Generated
    /\ Len(download_operations) = 2
    /\ download_operations[1].kind = "HFFileDownload"
    /\ download_operations[2].kind = "CivitaiDownload"
    /\ Len(DownloadStagesOf(ret.text)) = 2

\* the digest does not collide on the two operations: equal digests come from
\* equal texts of their attributes
NoDigestCollision(a, b) ==
    Let1(<<StrDict(OperationDict(a)), StrDict(OperationDict(b))>>, LAMBDA s :
        Md5Hex8(s[1]) = Md5Hex8(s[2]) => s[1] = s[2])

\* C23: in every descriptor generate_dockerfile returns, two download stages
\* carry the same name only if their operations have the same variant and the
\* same resolved fields (the digest itself not colliding); two stage blocks of
\* the same name then have the same instructions and the same output path.
C23_SameNameSameOperation ==
    Generated =>
        LET dl == DownloadStagesOf(ret.text)
            ops == download_operations
        IN \A k, l \in 1..Len(dl) :
              (Len(dl) = Len(ops) /\ dl[k].name = dl[l].name
                  /\ NoDigestCollision(ops[k], ops[l]))
              => /\ ops[k] = ops[l]
                 /\ dl[k].body = dl[l].body
                 /\ GetOutputPath(ops[k]) = GetOutputPath(ops[l])

C23_Witness ==
    /\ Generated
    /\ Len(DownloadStagesOf(ret.text)) = 2
    /\ DownloadNamesOf(ret.text)[1] = DownloadNamesOf(ret.text)[2]
    /\ download_operations[1] = download_operations[2]
    /\ download_operations[1].kind = "HFFileDownload"

\* the final path segment of a locator with a trailing ".git" removed and
\* nothing else
StripGitSuffix(url) ==
    LET seg == Basename(url) IN
    IF seg # <<>> /\ seg[Len(seg)] = ".git" THEN SubSeq(seg, 1, Len(seg) - 1) ELSE seg

\* C24: in every add-on manifest written to the build context, the repo_name
\* of each record is the final path segment of the record's url with a
\* trailing ".git" removed and nothing else removed: a ".git" elsewhere in the
\* segment is kept.
C24_RepoNameStripsSuffixOnly ==
    (ManifestPath \in DOMAIN files /\ IsManifestArray(files[ManifestPath])) =>
        \A r \in Range(ManifestRecords(files[ManifestPath])) :
            r[6] = StripGitSuffix(r[2])

\* ------------------------------------------- reading optional arguments back
\* the atoms of a stage body, in order
AtomsOf(body) == Flatten([i \in 1..Len(body) |-> Flatten(body[i])])

\* how many times the key occurs in the atoms, and the atoms that follow it
KeyCount(atoms, key) == Cardinality({i \in 1..Len(atoms) : atoms[i] = key})

KeyFollowedBy(atoms, key, val) ==
    \E i \in 1..Len(atoms) :
        /\ atoms[i] = key
        /\ i + Len(val) <= Len(atoms)
        /\ SubSeq(atoms, i + 1, i + Len(val)) = val

\* the optional field is written once with its value when present, and not
\* at all when absent
OptionalWritten(atoms, key, val) ==
    IF Truthy(val)
    THEN KeyCount(atoms, key) = 1 /\ KeyFollowedBy(atoms, key, val)
    ELSE KeyCount(atoms, key) = 0

\* C25: in every descriptor generate_dockerfile returns, a revision, credential
\* or exclude-pattern field that is absent contributes nothing to the
\* instructions of its download stage (no argument, URL parameter or sentinel
\* value for it), and one that is present is written exactly once.
C25_AbsentFieldsOmitted ==
    Generated =>
        LET dl == DownloadStagesOf(ret.text) IN
        /\ Len(dl) = Len(download_operations)
        /\ \A k \in 1..Len(dl) :
              LET op == download_operations[k]
                  atoms == AtomsOf(dl[k].body)
              IN /\ KeyCount(atoms, NoneVal[1]) = 0
                 /\ op.kind \in {"HFFileDownload", "HFSnapshotDownload"} =>
                       /\ OptionalWritten(atoms, "revision=", op.revision)
                       /\ OptionalWritten(atoms, "token=", op.token)
                 /\ op.kind = "HFSnapshotDownload" =>
                       OptionalWritten(atoms, "ignore_patterns=",
                                       IF op.ignore_patterns = <<NoneVal>>
                                       THEN NoneVal ELSE Flatten(op.ignore_patterns))
                 /\ op.kind = "CivitaiDownload" =>
                       OptionalWritten(atoms, "?token=", op.token)
                 /\ op.kind = "URLDownload" =>
                       \A key \in {"revision=", "token=", "?token=", "ignore_patterns="} :
                           KeyCount(atoms, key) = 0

C25_Witness ==
    /\ Generated
    /\ Len(download_operations) = 2
    /\ download_operations[1].kind = "HFSnapshotDownload"
    /\ download_operations[1].revision = NoneVal
    /\ download_operations[1].token = NoneVal
    /\ download_operations[1].ignore_patterns = <<NoneVal>>
    /\ download_operations[2].kind = "CivitaiDownload"
    /\ download_operations[2].token = T("tok")
    /\ Len(DownloadStagesOf(ret.text)) = 2

\* C26: resolving the name of a marketplace operation declared without a name
\* makes exactly one network attempt and always terminates: whatever the
\* endpoint does, never answering included, the construction ends (with a
\* resolved name or an error raised to the caller).
C26_ProbeTerminates ==
    (request.state = "sent") ~> (request.state = "idle" /\ ret.op = "civitai")

\* C27: the build-context directory exists from the construction of the plan
\* until the caller calls cleanup(): no builder, generate or save call removes
\* it or a file in it; a cleanup() call removes the directory with every
\* descriptor and payload file in it.
C27_ContextUntilCleanup ==
    /\ ContextExists
    /\ [][/\ (ContextExists /\ ~CleanupCall) =>
               (ContextExists' /\ DOMAIN files \subseteq DOMAIN files')
          /\ (ContextExists /\ CleanupCall) =>
               (~ContextExists' /\ files' = NoFiles)]_vars

C27_Witness ==
    /\ ret = Ok("cleanup")
    /\ ~ContextExists
    /\ files = NoFiles
    /\ system_stage # <<>>
    /\ Len(calls) = 1
    /\ calls[1][1][1] = T("COPY")

\* C28: in an add-on installer run, a failure while installing one add-on
\* (clone, checkout or a dependency-install hook) is logged and skipped: the
\* run is never aborted, and a run that has ended has attempted every add-on
\* of the manifest.
C28_InstallerLogsAndContinues ==
    /\ installer.status # "aborted"
    /\ installer.status = "done" =>
          installer.attempted = [k \in 1..Len(installer.manifest) |-> k]

\* C29: with the template files the package ships, generate_dockerfile on a
\* plan without caller copies (run, add-on and download declarations only)
\* never raises a missing-source error: the payload files the assembler
\* writes and the installer scripts it names are all accepted as COPY sources.
C29_GenerationFindsItsSources ==
    (templateFiles = ShippedTemplates /\ ret.op = "generate_dockerfile")
        => ret.status # "FileNotFoundError"

\* C30: files placed in the build context never overwrite one another: a
\* copy, copy_local_file, file_contents or generate_dockerfile call that
\* succeeds leaves every file the context already held with the content it
\* had, and after a copy() every distinct source has a file of its own
\* content in the context.
C30_ContextFilesNeverOverwritten ==
    [][ret'.status = "ok" =>
          /\ \A q \in DOMAIN files : q \in DOMAIN files' /\ files'[q] = files[q]
          /\ \A args \in CopyArgs \cup SameNameArgs :
                (CopyArgsValid(args) /\ CopyCall(args)) =>
                    \A i \in 1..(Len(args) - 1) :
                        \E q \in DOMAIN files' : files'[q] = ProjectText(args[i])]_vars

====
